---- MODULE Spec2Model ----
(***************************************************************************)
(* flash-sdcard.py as a state machine: main()'s precondition checks and    *)
(* confirmation, flash_image_with_progress() (unmount, SIGINT handler,     *)
(* block copy with periodic fsync and progress frames, final fsync, final  *)
(* frame, sync, verification) and repair_filesystem().                     *)
(*                                                                         *)
(* The program is single-threaded; pc is its position.  Every answer of    *)
(* the environment (euid, stat results, tool exit codes, I/O errors, the   *)
(* clock, the terminal width, the user's answer) is drawn with \E at the   *)
(* step that asks for it.  SIGINT may arrive at any position.              *)
(*                                                                         *)
(* Sizes are scaled: one model byte stands for one byte, but a block is    *)
(* BlockSize bytes instead of 8*1024, a durability barrier comes every     *)
(* SyncEvery blocks instead of every 128, so that 1024*1024 bytes, the      *)
(* verification chunk and the MB of the display, are SyncEvery * BlockSize *)
(* bytes.  Time is counted in ticks of 0.1 s.                              *)
(*                                                                         *)
(* Environment assumptions: umount, sync, lsblk (util-linux / coreutils)   *)
(* are installed; a write() on the opened device either stores the whole   *)
(* block or raises; a read of the image file returns fewer bytes than asked *)
(* for only at the end of the file.  The image file may have been cut or   *)
(* extended after its size was measured.                                   *)
(***************************************************************************)
EXTENDS Integers, Sequences, FiniteSets, TLC

\* ------------------------------------------------------------------ bounds
\* scaled block_size (the code's is 8 * 1024 bytes)
BlockSize == 2
\* scaled number of blocks between two periodic barriers (the code's is 128)
SyncEvery == 4
\* largest advance of the clock, in ticks, during one loop iteration
MaxDt == 2

\* the progress refresh interval, 0.2 s, in ticks of 0.1 s
SampleTicks == 2

\* 1024 * 1024 bytes are 128 blocks of 8 * 1024 bytes
MiB == SyncEvery * BlockSize

\* chunk_size = 1024 * 1024
ChunkSize == MiB

\* ----------------------------------------------------------------- helpers
Min(a, b) == IF a < b THEN a ELSE b

Max(a, b) == IF a < b THEN b ELSE a

\* the image sizes of the copy contract: 0, 1, B-1, B, B+1, 10*B+7
ImageSizes == {0, 1, BlockSize - 1, BlockSize, BlockSize + 1, 10 * BlockSize + 7}

\* the image files: the size os.path.getsize reports and the number of bytes a
\* read to the end yields; the two differ for a file cut after it was measured
\* and for a file that was extended (padded with a zero byte) after it was
\* measured
ImageFiles ==
    {[size |-> n, len |-> n] : n \in ImageSizes}
        \cup {[size |-> n, len |-> n - 1] : n \in {1, BlockSize + 1}}
        \cup {[size |-> BlockSize + 1, len |-> BlockSize + 2]}

\* capacity of the target device, in bytes
DevSize == 10 * BlockSize + 7

\* content of an image file of n bytes: no two neighbouring blocks are alike
Img(n) == [i \in 1..n |-> ((i - 1) % 3) + 1]

\* content of the image file f: the image, and zero padding after the measured
\* size if the file was extended
ImageBytes(f) ==
    IF f.len <= f.size THEN Img(f.len)
    ELSE Img(f.size) \o [i \in 1..(f.len - f.size) |-> 0]

\* the device before the flash: old data, different from every image byte
BlankDevice == [i \in 1..DevSize |-> 0]

\* s[a+1 .. a+n], cut at the end of s
Slice(s, a, n) == SubSeq(s, a + 1, Min(Len(s), a + n))

\* a faulty variant of Overwrite: the block lands one byte late
OverwriteShifted(dev, pos, block) ==
    [i \in 1..Len(dev) |->
        IF pos + 1 < i /\ i <= pos + 1 + Len(block) THEN block[i - pos - 1] ELSE dev[i]]

\* dev with block written at byte offset pos
Overwrite(dev, pos, block) ==
    [i \in 1..Len(dev) |->
        IF pos < i /\ i <= pos + Len(block) THEN block[i - pos] ELSE dev[i]]

\* s is a prefix of t
IsPrefix(s, t) == Len(s) <= Len(t) /\ SubSeq(t, 1, Len(s)) = s

\* sub occurs in s (Python's  sub in s  on strings)
Contains(sub, s) ==
    \E k \in 0..(Len(s) - Len(sub)) : SubSeq(s, k + 1, k + Len(sub)) = sub

\* e occurs in the sequence s
Occurs(e, s) == \E i \in 1..Len(s) : s[i] = e

\* ------------------------------------------------------------------ paths
\* paths are sequences of characters
ImagePath == <<"a", ".", "i", "m", "g">>

DevSdb == <<"/", "d", "e", "v", "/", "s", "d", "b">>

DevMmc == <<"/", "d", "e", "v", "/", "m", "m", "c", "b", "l", "k", "0">>

\* the devices the runs are given
DevicePaths == {DevSdb, DevMmc}

Digits == {"0", "1", "2", "3", "4", "5", "6", "7", "8", "9"}

\* the characters of the paths, in code-point order
Alphabet == <<"*", ".", "/", "0", "1", "2", "3", "4", "5", "6", "7", "8", "9",
              "a", "b", "c", "d", "e", "g", "i", "k", "l", "m", "n", "p", "s", "v">>

\* ord(c)
Ord(c) == CHOOSE i \in 1..Len(Alphabet) : Alphabet[i] = c

\* a faulty variant of StrLess: a shorter string sorts first (numeric order of
\* the partition numbers)
RECURSIVE StrLessShortFirst(_, _)
StrLessShortFirst(s, t) ==
    IF Len(s) # Len(t) THEN Len(s) < Len(t)
    ELSE IF t = <<>> THEN FALSE
    ELSE IF s[1] # t[1] THEN Ord(s[1]) < Ord(t[1])
    ELSE StrLessShortFirst(Tail(s), Tail(t))

\* s < t on Python strings
RECURSIVE StrLess(_, _)
StrLess(s, t) ==
    IF t = <<>> THEN FALSE
    ELSE IF s = <<>> THEN TRUE
    ELSE IF s[1] # t[1] THEN Ord(s[1]) < Ord(t[1])
    ELSE StrLess(Tail(s), Tail(t))

\* sorted(S) for a set S of strings
RECURSIVE Sorted(_)
Sorted(S) ==
    IF S = {} THEN <<>>
    ELSE LET m == CHOOSE x \in S : \A y \in S \ {x} : StrLess(x, y)
         IN  <<m>> \o Sorted(S \ {m})

\* 'mmcblk' in path or 'nvme' in path
IsNumberedFamily(path) ==
    \/ Contains(<<"m", "m", "c", "b", "l", "k">>, path)
    \/ Contains(<<"n", "v", "m", "e">>, path)

\* s.rstrip('0123456789')
RECURSIVE RStripDigits(_)
RStripDigits(s) ==
    IF s # <<>> /\ s[Len(s)] \in Digits
    THEN RStripDigits(SubSeq(s, 1, Len(s) - 1))
    ELSE s

\* lines 230-233: the device path without a trailing partition number
BaseDevice(path) ==
    IF path[Len(path)] \in Digits THEN RStripDigits(path) ELSE path

\* Path(p).name: what follows the last slash
RECURSIVE PathName(_)
PathName(p) ==
    IF p = <<>> \/ p[Len(p)] = "/" THEN <<>>
    ELSE PathName(SubSeq(p, 1, Len(p) - 1)) \o <<p[Len(p)]>>

\* name matches the glob  <prefix>[0-9]*
GlobDigit(prefix, name) ==
    /\ Len(name) > Len(prefix)
    /\ SubSeq(name, 1, Len(prefix)) = prefix
    /\ name[Len(prefix) + 1] \in Digits

\* ---------------------------------------------------------------- st_mode
\* the file types a path can have, with the S_IFMT bits of their st_mode
FileTypes == {"fifo", "chr", "dir", "blk", "reg", "sock"}

\* st_mode's file-type bits (stat.S_IFIFO ... stat.S_IFSOCK);  -1: no such path
StMode(t) ==
    CASE t = "fifo" -> 4096
      [] t = "chr" -> 8192
      [] t = "dir" -> 16384
      [] t = "blk" -> 24576
      [] t = "reg" -> 32768
      [] t = "sock" -> 49152
      [] OTHER -> -1

\* a & b on non-negative integers
RECURSIVE BitAnd(_, _)
BitAnd(a, b) ==
    IF a = 0 \/ b = 0 THEN 0
    ELSE ((a % 2) * (b % 2)) + 2 * BitAnd(a \div 2, b \div 2)

\* os.path.exists(device) and os.stat(device).st_mode & 0o060000
DeviceCheck(mode) == mode # -1 /\ BitAnd(mode, 24576) # 0

\* --------------------------------------------------------------- variables
VARIABLES
    pc,               \* position of the program
    args,             \* parsed command line
    device_path,      \* the device handed to flash / repair
    exit_code,        \* -1 while running, else the process's exit code
    handler,          \* SIGINT disposition: "default" or "signal_handler"
    st_type,          \* file type the device check's os.stat found; "" once
                      \* main has moved on
    response,         \* what input() returned at the prompt; "" once the
                      \* flash has begun
    image_size,       \* os.path.getsize(image_path), measured once
    src,              \* the bytes the image file yields when read
    disk,             \* the bytes stored on the target device
    bytes_written,
    blocks_processed,
    elapsed,          \* current_time - last_update at the end of an iteration
    last_bytes,
    spinner_index,
    percent,
    speed_mbs,
    progress_width,   \* 0: the name is not bound yet
    bytes_compared,
    chunks_odd,       \* the verify loop has read an odd number of chunks
    base_device,
    dev_nodes,        \* the block-device nodes of /dev the scan saw (names)
    table,            \* "unknown", "ok" (probe succeeded), "gpt", "msdos"
    partitions,
    part_idx,         \* position of the repair loop in partitions
    trace,            \* history: external actions and messages, in order
    repair_log,       \* history: per partition, the type found and the tool run
    err_text,         \* history: the text of the reported error
    dst_open,         \* history: the device is open for writing
    unsynced,         \* history: blocks written since the last barrier
    passed,           \* history: the precondition checks that passed
    umount_rc,        \* history: exit status of umount
    umount_glob,      \* history: the pattern handed to umount
    swallowed,        \* history: a handled SIGINT's SystemExit was caught
    flipped           \* history: the device byte corrupted after the write

ctlVars == <<pc, exit_code, trace, dst_open>>

progressVars == <<elapsed, last_bytes, spinner_index, percent, speed_mbs, progress_width>>

mainVars == <<args, device_path, handler, st_type, response>>

fileVars == <<image_size, src>>

countVars == <<bytes_written, blocks_processed, unsynced>>

verifyVars == <<bytes_compared, chunks_odd, flipped>>

repairVars == <<base_device, dev_nodes, table, partitions, part_idx, repair_log>>

histVars == <<err_text, passed, umount_rc, umount_glob, swallowed>>

vars == <<ctlVars, progressVars, mainVars, fileVars, disk, countVars,
          verifyVars, repairVars, histVars>>

\* the program has ended
Exited == pc = "exit"

\* the command lines: flash mode names an image and a device, fix-only mode
\* names a device (argparse puts a single positional into image_file)
CommandLines ==
    {a \in [fix_only : BOOLEAN, force : BOOLEAN, no_repair : BOOLEAN,
            verify : BOOLEAN,
            image_file : {<<>>, ImagePath} \cup DevicePaths,
            device : {<<>>} \cup DevicePaths] :
        IF a.fix_only
        THEN a.image_file # ImagePath /\ (a.device # <<>> => a.image_file = <<>>)
        ELSE a.image_file \in {<<>>, ImagePath}}

Init ==
    /\ pc = "m_root"
    /\ args \in CommandLines
    /\ device_path = <<>>
    /\ exit_code = -1
    /\ handler = "default"
    /\ image_size = 0
    /\ src = <<>>
    /\ disk = BlankDevice
    /\ bytes_written = 0
    /\ blocks_processed = 0
    /\ elapsed = 0
    /\ last_bytes = 0
    /\ spinner_index = 0
    /\ percent = 0
    /\ speed_mbs = 0
    /\ progress_width = 0
    /\ bytes_compared = 0
    /\ chunks_odd = FALSE
    /\ base_device = <<>>
    /\ dev_nodes = {}
    /\ table = "unknown"
    /\ partitions = <<>>
    /\ part_idx = 0
    /\ trace = <<>>
    /\ repair_log = <<>>
    /\ err_text = ""
    /\ dst_open = FALSE
    /\ unsynced = 0
    /\ passed = {}
    /\ umount_rc = -1
    /\ umount_glob = <<>>
    /\ swallowed = FALSE
    /\ st_type = ""
    /\ response = ""
    /\ flipped = 0

\* the display locals of flash_image_with_progress are dropped
DropProgress ==
    /\ elapsed' = 0
    /\ last_bytes' = 0
    /\ spinner_index' = 0
    /\ percent' = 0
    /\ speed_mbs' = 0
    /\ progress_width' = 0

\* the process ends with exit code  code  after the messages msgs; open files
\* are closed on the way out
Exit(code, msgs) ==
    /\ pc' = "exit"
    /\ exit_code' = code
    /\ trace' = trace \o msgs
    /\ dst_open' = FALSE
    /\ DropProgress

\* the program goes on at position p after the events evs
Goto(p, evs) ==
    /\ pc' = p
    /\ trace' = trace \o evs
    /\ UNCHANGED <<exit_code, dst_open, progressVars>>

\* --------------------------------------------------------------- main()
\* a faulty variant of NotRoot: the privilege check is skipped
NotRootSkipped(euid) == FALSE

\* os.geteuid() != 0
NotRoot(euid) == euid # 0

\* if os.geteuid() != 0: error; sys.exit(1)
CheckRoot ==
    /\ pc = "m_root"
    /\ \E euid \in {0, 1000} :
        IF NotRoot(euid)
        THEN /\ Exit(1, <<"err_not_root">>)
             /\ UNCHANGED passed
        ELSE /\ Goto(IF args.fix_only THEN "m_fix" ELSE "m_image", <<>>)
             /\ passed' = passed \cup (IF euid = 0 THEN {"root"} ELSE {})
    /\ UNCHANGED <<mainVars, fileVars, disk, countVars, verifyVars, repairVars,
                   err_text, umount_rc, umount_glob, swallowed>>

\* fix-only mode, lines 356-364: device = args.device or args.image_file; the
\* device check; then repair_filesystem(device, args.force)
FixOnlyCheck ==
    /\ pc = "m_fix"
    /\ LET device == IF args.device # <<>> THEN args.device ELSE args.image_file
       IN  IF device = <<>>
           THEN /\ Exit(1, <<"err_args">>)
                /\ UNCHANGED <<passed, device_path, st_type>>
           ELSE \E t \in FileTypes \cup {"missing"} :
                /\ st_type' = t
                /\ IF ~DeviceCheck(StMode(t))
                   THEN /\ Exit(1, <<"err_device_not_found">>)
                        /\ UNCHANGED <<passed, device_path>>
                   ELSE /\ Goto("r_tools", <<>>)
                        /\ passed' = passed \cup {"device"}
                        /\ device_path' = device
    /\ UNCHANGED <<args, handler, response, fileVars, disk, countVars, verifyVars,
                   repairVars, err_text, umount_rc, umount_glob, swallowed>>

\* flash mode, lines 370-377: both arguments given, the image is a regular file
CheckImage ==
    /\ pc = "m_image"
    /\ IF args.image_file = <<>> \/ args.device = <<>>
       THEN /\ Exit(1, <<"err_args">>)
            /\ UNCHANGED passed
       ELSE \E isfile \in BOOLEAN :
            IF ~isfile
            THEN /\ Exit(1, <<"err_image_not_found">>)
                 /\ UNCHANGED passed
            ELSE /\ Goto("m_device", <<>>)
                 /\ passed' = passed \cup {"image"}
    /\ UNCHANGED <<mainVars, fileVars, disk, countVars, verifyVars, repairVars,
                   err_text, umount_rc, umount_glob, swallowed>>

\* if not os.path.exists(args.device) or not os.stat(args.device).st_mode & 0o060000
CheckDevice ==
    /\ pc = "m_device"
    /\ \E t \in FileTypes \cup {"missing"} :
        /\ st_type' = t
        /\ IF ~DeviceCheck(StMode(t))
           THEN /\ Exit(1, <<"err_device_not_found">>)
                /\ UNCHANGED passed
           ELSE /\ Goto("m_info", <<>>)
                /\ passed' = passed \cup {"device"}
    /\ UNCHANGED <<args, device_path, handler, response, fileVars, disk, countVars, verifyVars,
                   repairVars,
                   err_text, umount_rc, umount_glob, swallowed>>

\* lines 383-407: image size, lsblk and parted print of the target (read-only)
ShowInfo ==
    /\ pc = "m_info"
    /\ Goto("m_confirm", <<"lsblk", "parted_info">>)
    /\ st_type' = ""
    /\ UNCHANGED <<args, device_path, handler, response, fileVars, disk, countVars,
                   verifyVars, repairVars, histVars>>

\* the answers a user can type;  "EOF": input() raises EOFError
Responses == {"y", "Y", "yes", "Yes", "YES", "n", "no", "", "yy", "EOF"}

\* a faulty variant of Lower: the answer is compared as typed
LowerAsTyped(s) == s

\* str.lower() on the answers above
Lower(s) ==
    CASE s = "Y" -> "y"
      [] s \in {"Yes", "YES"} -> "yes"
      [] OTHER -> s

\* if not args.force: input(...); anything but y / yes cancels with exit 0;
\* then flash_image_with_progress(args.image_file, args.device, args.verify)
Confirm ==
    /\ pc = "m_confirm"
    /\ IF args.force
       THEN /\ Goto("f_start", <<>>)
            /\ device_path' = args.device
            /\ UNCHANGED response
       ELSE \E typed \in Responses :
            /\ response' = typed
            /\ IF typed = "EOF"
               THEN /\ Exit(1, <<"warn_overwrite", "prompt", "err_unexpected">>)
                    /\ UNCHANGED device_path
               ELSE IF Lower(typed) \notin {"y", "yes"}
               THEN /\ Exit(0, <<"warn_overwrite", "prompt", "msg_cancelled">>)
                    /\ UNCHANGED device_path
               ELSE /\ Goto("f_start", <<"warn_overwrite", "prompt">>)
                    /\ device_path' = args.device
    /\ UNCHANGED <<args, handler, st_type, fileVars, disk, countVars, verifyVars,
                   repairVars, histVars>>

\* ------------------------------------------- flash_image_with_progress()
\* the widths shutil.get_terminal_size() can report
TermWidths == {120}

\* the trace with e noted, consecutive block writes noted once
Note(e) ==
    IF trace # <<>> /\ trace[Len(trace)] = e THEN trace ELSE Append(trace, e)

\* the lengths src.read(want) can return with avail bytes left: a buffered read
\* of a regular file returns fewer than want only at the end of the file
ReadLens(want, avail) == {Min(want, avail)}

\* a faulty variant of FlashFail: the error is reported and the function goes
\* on to its final frame instead of returning False
FlashFailContinues(text) ==
    /\ Goto("f_final", <<"err_flash_failed">>)
    /\ err_text' = text

\* error("Failed to flash image: %s", str(e)); return False; main: sys.exit(1)
FlashFail(text) ==
    /\ Exit(1, <<"err_flash_failed">>)
    /\ err_text' = text

\* a faulty variant of FlashReturnsTrue: --no-repair is not looked at
FlashReturnsTrueRepairs(msgs) == Goto("r_tools", msgs)

\* flash returned True, lines 418-425: main runs repair_filesystem(args.device,
\* args.force) unless --no-repair, and ends with 0 otherwise
FlashReturnsTrue(msgs) ==
    IF args.no_repair
    THEN Exit(0, msgs)
    ELSE Goto("r_tools", msgs)

\* a faulty variant of UmountReturns: check=True, a failed umount raises
UmountChecked(rc) ==
    IF rc # 0
    THEN Exit(1, <<"umount", "err_unexpected">>)
    ELSE Goto("f_handler", <<"umount">>)

\* subprocess.run(['umount', ...], check=False): the exit status is not looked at
UmountReturns(rc) == Goto("f_handler", <<"umount">>)

\* lines 78-88: image_size = os.path.getsize(image_path); umount <device>p* for
\* a device of the numbered family, umount <device>* otherwise
FlashUnmount ==
    /\ pc = "f_start"
    /\ \E f \in ImageFiles :
        /\ image_size' = f.size
        /\ src' = ImageBytes(f)
    /\ umount_glob' = IF IsNumberedFamily(device_path)
                      THEN device_path \o <<"p", "*">>
                      ELSE device_path \o <<"*">>
    /\ \E rc \in {0, 32} :
        /\ umount_rc' = rc
        /\ UmountReturns(rc)
    /\ response' = ""
    /\ UNCHANGED <<args, device_path, handler, st_type, disk, countVars, verifyVars,
                   repairVars, err_text, passed, swallowed>>

\* lines 93-105: the progress locals, then signal.signal(SIGINT, signal_handler)
FlashInstallHandler ==
    /\ pc = "f_handler"
    /\ pc' = "f_open"
    /\ spinner_index' = 0
    /\ bytes_written' = 0
    /\ elapsed' = 0
    /\ last_bytes' = 0
    /\ handler' = "signal_handler"
    /\ UNCHANGED <<exit_code, trace, dst_open, percent, speed_mbs, progress_width,
                   args, device_path, st_type, response, fileVars, disk,
                   blocks_processed,
                   unsynced,
                   verifyVars, repairVars, histVars>>

\* with open(image_path, 'rb') as src, open(device_path, 'wb', buffering=0) as dst
FlashOpen ==
    /\ pc = "f_open"
    /\ \/ /\ FlashFail("open error")
          /\ UNCHANGED blocks_processed
       \/ /\ pc' = "f_copy"
          /\ trace' = trace \o <<"open_w">>
          /\ dst_open' = TRUE
          /\ blocks_processed' = 0
          /\ UNCHANGED <<exit_code, progressVars, err_text>>
    /\ UNCHANGED <<mainVars, fileVars, disk, bytes_written, unsynced, verifyVars,
                   repairVars, passed, umount_rc, umount_glob, swallowed>>

\* the width get_terminal_width() returns when shutil.get_terminal_size() raises
FallbackWidth == 120

\* progress_width = terminal_width // 3, at least 30
ProgressWidth(terminal_width) == Max(30, terminal_width \div 3)

\* a faulty variant of SpeedMbs: the first frame is not told apart
SpeedMbsUnguarded(bw, last, time_diff) ==
    ((bw - last) * 10) \div (time_diff * MiB)

\* lines 139-144: the speed of a frame in whole MB/s (a tick is 0.1 s), 0 when
\* there is no earlier sample
SpeedMbs(bw, last, time_diff) ==
    IF time_diff > 0 /\ last > 0
    THEN ((bw - last) * 10) \div (time_diff * MiB)
    ELSE 0

\* lines 130-151: a progress frame is due when at least SampleTicks have passed
\* since the last one; its percentage and speed are computed, then the terminal
\* width is asked for (position f_width, where elapsed is the frame's
\* time_diff);  bw: bytes_written after this block
Progress(bw) ==
    \E dt \in 0..MaxDt :
        LET time_diff == elapsed + dt IN
        IF time_diff >= SampleTicks
        THEN /\ pc' = "f_width"
             /\ percent' = Min(100, (bw * 100) \div image_size)
             /\ speed_mbs' = SpeedMbs(bw, last_bytes, time_diff)
             /\ spinner_index' = (spinner_index + 1) % 4
             /\ elapsed' = time_diff
             /\ UNCHANGED <<last_bytes, progress_width>>
        ELSE /\ pc' = "f_copy"
             /\ elapsed' = time_diff
             /\ UNCHANGED <<last_bytes, spinner_index, percent, speed_mbs, progress_width>>

\* remaining = image_size - bytes_written; read_size = min(block_size, remaining)
ReadSize(written) == Min(BlockSize, image_size - written)

\* a faulty variant of Advance: every write counts as a full block
AdvanceFullBlock(written, block) == written + BlockSize

\* bytes_written += len(block)
Advance(written, block) == written + Len(block)

\* a faulty variant of BarrierDue: the period is one block too long
BarrierLate(blocks) == blocks % (SyncEvery + 1) = 0

\* if blocks_processed % 128 == 0
BarrierDue(blocks) == blocks % SyncEvery = 0

\* a faulty variant of FinalBarrier: no barrier after the loop
FinalBarrierOmitted == <<>>

\* the events of  dst.flush(); os.fsync(dst.fileno())  after the loop
FinalBarrier == <<"fsync_final">>

\* one iteration of  while bytes_written < image_size  (lines 112-172): read a
\* block, write it, count it, barrier every SyncEvery blocks, progress frame.
\* Both files are read and written sequentially, so both are at offset
\* bytes_written.
FlashCopyBlock ==
    /\ pc = "f_copy"
    /\ bytes_written < image_size
    /\ LET read_size == ReadSize(bytes_written)
           avail == Len(src) - bytes_written
       IN  \/ /\ FlashFail("read error")
              /\ UNCHANGED <<disk, countVars>>
           \/ \E n \in ReadLens(read_size, avail) :
              LET block == Slice(src, bytes_written, n)
                  bw == Advance(bytes_written, block)
                  bp == blocks_processed + 1
              IN  IF n = 0
                  THEN /\ Goto("f_fsync", <<>>)
                       /\ UNCHANGED <<err_text, disk, countVars>>
                  ELSE \/ /\ FlashFail("write error")
                          /\ \E j \in 0..(n - 1) :
                                disk' = Overwrite(disk, bytes_written, SubSeq(block, 1, j))
                          /\ UNCHANGED countVars
                       \/ /\ BarrierDue(bp)
                          /\ FlashFail("fsync error")
                          /\ disk' = Overwrite(disk, bytes_written, block)
                          /\ bytes_written' = bw
                          /\ blocks_processed' = bp
                          /\ unsynced' = unsynced + 1
                       \/ /\ disk' = Overwrite(disk, bytes_written, block)
                          /\ bytes_written' = bw
                          /\ blocks_processed' = bp
                          /\ IF BarrierDue(bp)
                             THEN /\ unsynced' = 0
                                  /\ trace' = Append(Note("write"), "fsync")
                             ELSE /\ unsynced' = unsynced + 1
                                  /\ trace' = Note("write")
                          /\ Progress(bw)
                          /\ UNCHANGED <<exit_code, dst_open, err_text>>
    /\ UNCHANGED <<mainVars, fileVars, verifyVars, repairVars, passed,
                   umount_rc, umount_glob, swallowed>>

\* lines 153-171: terminal_width = get_terminal_width(); the bar is drawn;
\* last_update = current_time; last_bytes = bytes_written
FlashFrame ==
    /\ pc = "f_width"
    /\ pc' = "f_copy"
    /\ \E terminal_width \in TermWidths :
        progress_width' = ProgressWidth(terminal_width)
    /\ elapsed' = 0
    /\ last_bytes' = bytes_written
    /\ UNCHANGED <<exit_code, trace, dst_open, spinner_index, percent, speed_mbs>>
    /\ UNCHANGED <<mainVars, fileVars, disk, countVars, verifyVars, repairVars,
                   histVars>>

\* lines 174-176, the loop has ended: dst.flush(); os.fsync(dst.fileno()); the
\* with block closes both files
FlashFinalSync ==
    /\ \/ pc = "f_copy" /\ bytes_written >= image_size
       \/ pc = "f_fsync"
    /\ \/ /\ FlashFail("fsync error")
          /\ UNCHANGED unsynced
       \/ /\ pc' = "f_final"
          /\ trace' = trace \o FinalBarrier
          /\ dst_open' = FALSE
          /\ unsynced' = 0
          /\ UNCHANGED <<exit_code, progressVars, err_text>>
    /\ UNCHANGED <<mainVars, fileVars, disk, bytes_written, blocks_processed,
                   verifyVars, repairVars, passed, umount_rc, umount_glob, swallowed>>

\* lines 182-187: the final frame reads progress_width and speed_mbs, which only
\* a rendered frame binds; unbound, the UnboundLocalError reaches __main__,
\* which reports "Unexpected error" and exits with 1.  The display locals are
\* not read again after the frame.
FlashFinalFrame ==
    /\ pc = "f_final"
    /\ IF progress_width = 0
       THEN Exit(1, <<"err_unexpected">>)
       ELSE /\ pc' = "f_sync"
            /\ trace' = trace \o <<"frame_final", "msg_flashed_ok">>
            /\ DropProgress
            /\ UNCHANGED <<exit_code, dst_open>>
    /\ UNCHANGED <<mainVars, fileVars, disk, countVars, verifyVars, repairVars,
                   histVars>>

\* lines 188-192: subprocess.run(['sync']); then verification if requested,
\* else return True
FlashSync ==
    /\ pc = "f_sync"
    /\ IF args.verify
       THEN Goto("v_open", <<"sync">>)
       ELSE FlashReturnsTrue(<<"sync">>)
    /\ UNCHANGED <<mainVars, fileVars, disk, countVars, verifyVars, repairVars,
                   histVars>>

\* the medium corrupts one stored byte between the write and the verification
Corrupt ==
    /\ pc = "v_open"
    /\ flipped = 0
    /\ \E off \in 1..image_size :
        /\ flipped' = off
        /\ disk' = [disk EXCEPT ![off] = disk[off] + 4]
    /\ UNCHANGED <<ctlVars, progressVars, mainVars, fileVars, countVars,
                   bytes_compared, chunks_odd, repairVars, histVars>>

\* a faulty variant of VerifyFails: the warning is printed and True returned
VerifyFailsIgnored(msgs) == FlashReturnsTrue(msgs)

\* warning("Verification failed ..."); return False; main: sys.exit(1)
VerifyFails(msgs) == Exit(1, msgs)

\* lines 193-197: with open(image_path, 'rb') as src, open(device_path, 'rb') as dst
VerifyOpen ==
    /\ pc = "v_open"
    /\ \/ /\ VerifyFails(<<"verify_start", "warn_verify_error">>)
          /\ UNCHANGED bytes_compared
       \/ /\ Goto("v_loop", <<"verify_start">>)
          /\ bytes_compared' = 0
    /\ chunks_odd' = FALSE
    /\ UNCHANGED <<mainVars, fileVars, disk, countVars, flipped, repairVars, histVars>>

\* a faulty variant of ChunksDiffer: only the lengths are compared
ChunksDifferInLength(src_chunk, dst_chunk) == Len(src_chunk) # Len(dst_chunk)

\* if src_chunk != dst_chunk
ChunksDiffer(src_chunk, dst_chunk) == src_chunk # dst_chunk

\* one iteration of  while bytes_compared < image_size  (lines 198-204); the
\* device read may return fewer bytes than asked for
VerifyChunk ==
    /\ pc = "v_loop"
    /\ bytes_compared < image_size
    /\ \/ /\ VerifyFails(<<"warn_verify_error">>)
          /\ UNCHANGED bytes_compared
          /\ chunks_odd' = FALSE
       \/ \E short \in BOOLEAN :
          LET src_chunk == Slice(src, bytes_compared, ChunkSize)
              want == Len(src_chunk)
              got == IF short /\ want > 0 THEN want - 1 ELSE want
              dst_chunk == Slice(disk, bytes_compared, got)
          IN  IF ChunksDiffer(src_chunk, dst_chunk)
              THEN /\ VerifyFails(IF got < want
                                  THEN <<"dev_short_read", "warn_verify_mismatch">>
                                  ELSE <<"warn_verify_mismatch">>)
                   /\ UNCHANGED bytes_compared
                   /\ chunks_odd' = FALSE
              ELSE /\ Goto("v_loop", <<>>)
                   /\ bytes_compared' = bytes_compared + Len(src_chunk)
                   /\ chunks_odd' = ~chunks_odd
    /\ UNCHANGED <<mainVars, fileVars, disk, countVars, flipped, repairVars, histVars>>

\* line 205, the loop has ended: msg2("Verification successful"); return True
VerifyDone ==
    /\ pc = "v_loop"
    /\ bytes_compared >= image_size
    /\ FlashReturnsTrue(<<"verify_ok">>)
    /\ UNCHANGED <<mainVars, fileVars, disk, countVars, verifyVars, repairVars,
                   histVars>>

\* ------------------------------------------------------------------ SIGINT
\* "Operation cancelled by user" and exit code 1: signal_handler, lines 101-103,
\* and the KeyboardInterrupt handler of __main__, lines 430-432
Cancelled == Exit(1, <<"msg_cancelled_sigint">>)

\* lines 58-63: SIGINT arrives while get_terminal_width() is inside its try;
\* signal_handler prints its message and raises SystemExit, the bare  except:
\* catches it and returns the fallback width, and the copy loop goes on
SigintInWidth ==
    /\ pc' = "f_copy"
    /\ swallowed' = TRUE
    /\ progress_width' = ProgressWidth(FallbackWidth)
    /\ elapsed' = 0
    /\ last_bytes' = bytes_written
    /\ UNCHANGED <<exit_code, trace, dst_open, spinner_index, percent, speed_mbs>>

\* SIGINT arrives.  Under signal_handler (lines 101-103): message, sys.exit(1);
\* SystemExit is not an Exception, so no  except Exception  of the program
\* stops it, but a bare  except:  does (get_terminal_width, line 62; at most
\* one such interrupt per run, recorded in swallowed: its message is on the
\* screen but not in the trace).  Under the default disposition: KeyboardInterrupt, which
\* the bare  except:  around lsblk and parted print swallows (lines 394, 406)
\* and which __main__ turns into exit 1 (lines 430-432).  A write in flight may
\* have stored part of its block.
Sigint ==
    /\ ~Exited
    /\ IF handler = "default" /\ pc = "m_info"
       THEN \/ Goto("m_confirm", <<"info_interrupted">>) /\ UNCHANGED swallowed
            \/ Cancelled /\ UNCHANGED swallowed
       ELSE IF pc = "f_width" /\ ~swallowed
       THEN \/ SigintInWidth
            \/ Cancelled /\ UNCHANGED swallowed
       ELSE Cancelled /\ UNCHANGED swallowed
    /\ IF pc = "f_copy" /\ bytes_written < image_size
       THEN LET n == Min(Min(BlockSize, image_size - bytes_written),
                         Len(src) - bytes_written)
            IN  \E j \in 0..Max(0, n - 1) :
                    disk' = Overwrite(disk, bytes_written, Slice(src, bytes_written, j))
       ELSE UNCHANGED disk
    /\ st_type' = ""
    /\ response' = ""
    /\ UNCHANGED <<args, device_path, handler, fileVars, countVars, verifyVars,
                   repairVars, err_text, passed, umount_rc, umount_glob>>

\* ------------------------------------------------------ repair_filesystem()
\* required_tools, line 217
RequiredTools == <<"parted", "fsck", "e2fsck", "dosfsck", "partprobe">>

\* what blkid -o value -s TYPE prints on the partitions of the runs
FsTypes == {"ext4", "vfat", "ntfs", "swap"}

\* the block-device nodes /dev can hold beside the disk named base_name
DevListings(base_name) ==
    { {},
      {base_name \o <<"1">>},
      {base_name \o <<"2">>, base_name \o <<"1">>},
      {base_name \o <<"p", "1">>} }

\* the types the dispatcher names, and one it does not
AllFsTypes == {"ext2", "ext3", "ext4", "vfat", "fat16", "fat32", "ntfs", "swap"}

\* the trailing digits of a path
PartNumber(path) == SubSeq(path, Len(RStripDigits(path)) + 1, Len(path))

\* what blkid can print for a partition.  A card that was just flashed holds
\* partitions of the types FsTypes; on a card brought for repair (--fix-only)
\* the first partition is of any type, the others of two types each.
BlkidAnswers(partition) ==
    IF ~args.fix_only THEN FsTypes
    ELSE CASE PartNumber(partition) = <<"1">> -> AllFsTypes
           [] PartNumber(partition) = <<"1", "0">> -> {"vfat", "ntfs"}
           [] OTHER -> {"ext4", "swap"}

\* the block-device nodes /dev can hold beside the disk named base_name: those
\* of DevListings and the first p-suffixed partition of the device that was
\* named; on a card brought for repair also two p-suffixed partitions of the
\* device and three partitions under both naming schemes
DevNodes(base_name) ==
    IF ~args.fix_only
    THEN DevListings(base_name) \cup {{PathName(device_path) \o <<"p", "1">>}}
    ELSE DevListings(base_name) \cup
         { {PathName(device_path) \o <<"p", "1">>, PathName(device_path) \o <<"p", "2">>},
           {base_name \o <<"1">>, base_name \o <<"p", "1">>},
           {base_name \o n : n \in {<<"1">>, <<"2">>, <<"1", "0">>}} \cup
           {base_name \o <<"p">> \o n : n \in {<<"1">>, <<"2">>, <<"1", "0">>}} }

\* repair_filesystem returned: main exits with 1 on False and ends (0) on True
RepairReturns(ok, msgs) == Exit(IF ok THEN 0 ELSE 1, msgs)

\* lines 216-222: the first required tool that shutil.which does not find is
\* reported and the session returns False
RepairCheckTools ==
    /\ pc = "r_tools"
    /\ \E installed \in SUBSET {RequiredTools[i] : i \in 1..Len(RequiredTools)} :
        IF \E i \in 1..Len(RequiredTools) : RequiredTools[i] \notin installed
        THEN RepairReturns(FALSE, <<"msg_repairing", "err_tool_missing">>)
        ELSE Goto("r_refresh", <<"msg_repairing">>)
    /\ st_type' = ""
    /\ UNCHANGED <<args, device_path, handler, response, fileVars, disk, countVars,
                   verifyVars, repairVars, histVars>>

\* a faulty variant of RereadSettle: the kernel is not asked to re-read
SettleOnly == <<"sleep">>

\* lines 226-228 and 261-263: partprobe (check=False), then time.sleep
RereadSettle == <<"partprobe", "sleep">>

\* lines 319-320: the final partprobe (check=False), no delay after it
FinalReread == <<"partprobe">>

\* lines 224-233: partprobe device_path; sleep(2); base_device
RepairRefresh ==
    /\ pc = "r_refresh"
    /\ Goto("r_probe", RereadSettle)
    /\ base_device' = BaseDevice(device_path)
    /\ UNCHANGED <<mainVars, fileVars, disk, countVars, verifyVars, dev_nodes,
                   table, partitions, part_idx, repair_log, histVars>>

\* a faulty variant of Recreate: the table is recreated without --force
RecreateAlways(force) == TRUE

\* line 242, if force: whether a corrupted table is recreated
Recreate(force) == force

\* lines 235-257: parted -s base_device print; a non-zero exit means corrupted:
\* with force a GPT label is created next, without it the session returns False
RepairProbe ==
    /\ pc = "r_probe"
    /\ \E rc \in {0, 1} :
        IF rc = 0
        THEN /\ Goto("r_scan", <<"parted_print">>)
             /\ table' = "ok"
        ELSE /\ IF Recreate(args.force)
                THEN Goto("r_gpt", <<"parted_print", "warn_table_corrupted">>)
                ELSE RepairReturns(FALSE, <<"parted_print", "warn_table_corrupted",
                                            "warn_use_force">>)
             /\ UNCHANGED table
    /\ UNCHANGED <<mainVars, fileVars, disk, countVars, verifyVars, base_device,
                   dev_nodes, partitions, part_idx, repair_log, histVars>>

\* a faulty variant of AfterGptFailed: the failure is passed over
AfterGptFailedScan == "r_scan"

\* lines 247-250: where the session goes when mklabel gpt has failed
AfterGptFailed == "r_mbr"

\* lines 243-248: parted -s base_device mklabel gpt; its failure is reported
\* ("GPT failed, trying MBR...")
RepairMklabelGpt ==
    /\ pc = "r_gpt"
    /\ \E rc \in {0, 1} :
        IF rc = 0
        THEN /\ Goto("r_scan", <<"mklabel_gpt">>)
             /\ table' = "gpt"
        ELSE /\ Goto(AfterGptFailed, <<"mklabel_gpt", "msg_gpt_failed">>)
             /\ UNCHANGED table
    /\ UNCHANGED <<mainVars, fileVars, disk, countVars, verifyVars, base_device,
                   dev_nodes, partitions, part_idx, repair_log, histVars>>

\* lines 247-254: parted -s base_device mklabel msdos; if this fails too, the
\* session returns False
RepairMklabelMbr ==
    /\ pc = "r_mbr"
    /\ \E rc \in {0, 1} :
        IF rc = 0
        THEN /\ Goto("r_scan", <<"mklabel_msdos">>)
             /\ table' = "msdos"
        ELSE /\ RepairReturns(FALSE, <<"mklabel_msdos", "err_table_failed">>)
             /\ UNCHANGED table
    /\ UNCHANGED <<mainVars, fileVars, disk, countVars, verifyVars, base_device,
                   dev_nodes, partitions, part_idx, repair_log, histVars>>

\* a faulty variant of GlobPartitions: the family is not looked at
GlobPartitionsAnyFamily(base, listing) ==
    LET base_name == PathName(base)
    IN  {<<"/", "d", "e", "v", "/">> \o name : name \in {x \in listing : GlobDigit(base_name, x)}}

\* lines 265-278: the nodes of /dev that match the glob of the device's family
GlobPartitions(base, listing) ==
    LET base_name == PathName(base)
        prefix == IF IsNumberedFamily(base) THEN base_name \o <<"p">> ELSE base_name
    IN  {<<"/", "d", "e", "v", "/">> \o name : name \in {x \in listing : GlobDigit(prefix, x)}}

\* lines 259-286: partprobe base_device; sleep(1); the partitions, sorted; none
\* found is a warning and the session returns True
RepairScan ==
    /\ pc = "r_scan"
    /\ \E listing \in DevNodes(PathName(base_device)) :
        LET found == Sorted(GlobPartitions(base_device, listing))
        IN  /\ dev_nodes' = listing
            /\ partitions' = found
            /\ IF found = <<>>
               THEN /\ RepairReturns(TRUE, RereadSettle \o <<"warn_no_partitions">>)
                    /\ UNCHANGED part_idx
               ELSE /\ Goto("r_part", RereadSettle \o <<"msg_found">>)
                    /\ part_idx' = 1
    /\ UNCHANGED <<mainVars, fileVars, disk, countVars, verifyVars, base_device,
                   table, repair_log, histVars>>

\* a faulty variant of RepairTool: fat16 is missing from the FAT types
RepairToolNoFat16(fstype, have_ntfsfix) ==
    CASE fstype \in {"ext2", "ext3", "ext4"} -> "e2fsck -f -y"
      [] fstype \in {"vfat", "fat32"} -> "dosfsck -a -v"
      [] fstype = "ntfs" -> IF have_ntfsfix THEN "ntfsfix" ELSE "none"
      [] OTHER -> "none"

\* lines 301-316: what is printed about a partition's filesystem
RepairMessage(fstype, have_ntfsfix) ==
    CASE fstype \in {"ext2", "ext3", "ext4"} -> "msg_running_e2fsck"
      [] fstype \in {"vfat", "fat32", "fat16"} -> "msg_running_dosfsck"
      [] fstype = "ntfs" -> IF have_ntfsfix THEN "msg_running_ntfsfix"
                                            ELSE "warn_ntfsfix_not_available"
      [] OTHER -> "msg_no_repair_tool"

\* lines 300-316: the repair tool for a filesystem type;  "none": no tool
RepairTool(fstype, have_ntfsfix) ==
    CASE fstype \in {"ext2", "ext3", "ext4"} -> "e2fsck -f -y"
      [] fstype \in {"vfat", "fat32", "fat16"} -> "dosfsck -a -v"
      [] fstype = "ntfs" -> IF have_ntfsfix THEN "ntfsfix" ELSE "none"
      [] OTHER -> "none"

\* one iteration of  for partition in partitions  (lines 289-316): blkid, whose
\* failure gives 'unknown', then the tool, whose exit status is not looked at.
\* blkid is not among the required tools: missing, subprocess.run raises
\* FileNotFoundError, which reaches __main__ ("Unexpected error", exit 1).
\* a faulty variant of ToolReturns: check=True, a failed tool raises
ToolChecked(rc) ==
    IF rc # 0
    THEN Exit(1, <<"err_unexpected">>)
    ELSE Goto("r_part", <<>>)

\* lines 302-312, subprocess.run([tool, ...], check=False): the exit status of
\* the repair tool is not looked at, the loop goes on
ToolReturns(rc) == Goto("r_part", <<>>)

RepairPartition ==
    /\ pc = "r_part"
    /\ part_idx <= Len(partitions)
    /\ \/ /\ Exit(1, <<"err_unexpected">>)
          /\ UNCHANGED <<part_idx, repair_log>>
       \/ \E answer \in BlkidAnswers(partitions[part_idx]) \cup {"failed"},
             have_ntfsfix \in BOOLEAN, rc \in {0, 1} :
          LET fstype == IF answer = "failed" THEN "unknown" ELSE answer
              tool == RepairTool(fstype, have_ntfsfix)
          IN  /\ tool = "none" => rc = 0
              /\ fstype # "ntfs" => have_ntfsfix
              /\ repair_log' = Append(repair_log,
                    [partition |-> partitions[part_idx], fstype |-> fstype,
                     ntfsfix |-> have_ntfsfix,
                     message |-> RepairMessage(fstype, have_ntfsfix),
                     tool |-> tool, rc |-> rc])
              /\ part_idx' = part_idx + 1
              /\ ToolReturns(rc)
    /\ UNCHANGED <<mainVars, fileVars, disk, countVars, verifyVars, base_device,
                   dev_nodes, table, partitions, histVars>>

\* lines 318-322, the loop has ended: partprobe base_device; return True
RepairFinish ==
    /\ pc = "r_part"
    /\ part_idx > Len(partitions)
    /\ RepairReturns(TRUE, FinalReread \o <<"msg_repair_completed">>)
    /\ UNCHANGED <<mainVars, fileVars, disk, countVars, verifyVars, repairVars,
                   histVars>>

\* ----------------------------------------------------------- specification
Next ==
    \/ CheckRoot
    \/ FixOnlyCheck
    \/ CheckImage
    \/ CheckDevice
    \/ ShowInfo
    \/ Confirm
    \/ FlashUnmount
    \/ FlashInstallHandler
    \/ FlashOpen
    \/ FlashCopyBlock
    \/ FlashFrame
    \/ FlashFinalSync
    \/ FlashFinalFrame
    \/ FlashSync
    \/ Corrupt
    \/ VerifyOpen
    \/ VerifyChunk
    \/ VerifyDone
    \/ RepairCheckTools
    \/ RepairRefresh
    \/ RepairProbe
    \/ RepairMklabelGpt
    \/ RepairMklabelMbr
    \/ RepairScan
    \/ RepairPartition
    \/ RepairFinish
    \/ Sigint

Spec == Init /\ [][Next]_vars

\* the interpreter goes on running the verify loop: an iteration that is
\* possible is eventually taken, and so is the loop's end
FairSpec == Spec /\ WF_vars(VerifyChunk) /\ WF_vars(VerifyDone)

\* ------------------------------------------------------------ properties
\* the copy loop has ended without an I/O error and the device has not been
\* read back yet
\* the positions of the copy loop
CopyLoop == pc \in {"f_copy", "f_width"}

CopyEnded ==
    \/ pc = "f_copy" /\ bytes_written >= image_size
    \/ pc \in {"f_fsync", "f_final", "f_sync"}

\* the device beyond the first n bytes still holds its old data
Untouched(n) == \A i \in (n + 1)..DevSize : disk[i] = 0

\* C1: for every image of size N in {0, 1, B-1, B, B+1, 10*B+7} that yields its
\* N bytes, when the copy loop has ended without an I/O error the first N bytes
\* of the device are the N bytes of the image; while the loop runs, the bytes
\* written so far are the image's first bytes_written bytes, in order, and
\* nothing beyond them has been written.
C1_CopyExact ==
    /\ CopyLoop =>
        /\ Slice(disk, 0, bytes_written) = Slice(src, 0, bytes_written)
        /\ Untouched(bytes_written)
    /\ (CopyEnded /\ Len(src) = image_size) =>
        /\ image_size \in ImageSizes
        /\ bytes_written = image_size
        /\ Slice(disk, 0, image_size) = src
        /\ Untouched(image_size)

\* the largest image, not a multiple of the block size, has been copied
C1_Witness ==
    /\ pc = "f_final"
    /\ image_size = 10 * BlockSize + 7
    /\ Len(src) = image_size
    /\ Slice(disk, 0, image_size) = src

\* C2: in every step bytes_written does not decrease and is at most image_size
C2_Monotone == [][bytes_written' >= bytes_written /\ bytes_written' <= image_size']_vars

\* the copy loop after several blocks, with more to come
C2_Witness ==
    /\ pc = "f_copy"
    /\ blocks_processed >= 2
    /\ 0 < bytes_written
    /\ bytes_written < image_size

\* the last event of the trace
LastEvent == IF trace = <<>> THEN "" ELSE trace[Len(trace)]

\* the number of times e occurs in s
Count(e, s) == Cardinality({i \in 1..Len(s) : s[i] = e})

\* every occurrence of b in the trace has an occurrence of a before it
Before(a, b) ==
    \A i \in 1..Len(trace) : trace[i] = b => \E j \in 1..(i - 1) : trace[j] = a

\* nothing of the set S occurs in the trace after an occurrence of a
NoneAfter(a, S) ==
    \A i \in 1..Len(trace) :
        trace[i] = a => \A j \in (i + 1)..Len(trace) : trace[j] \notin S

\* the events of the copy phase that touch the device
WriteEvents == {"umount", "open_w", "write", "fsync", "fsync_final"}

\* the events of repair_filesystem
RepairEvents ==
    {"msg_repairing", "err_tool_missing", "partprobe", "sleep", "parted_print",
     "warn_table_corrupted", "warn_use_force", "mklabel_gpt", "msg_gpt_failed",
     "mklabel_msdos",
     "err_table_failed", "warn_no_partitions", "msg_found", "msg_repair_completed"}

\* the positions of repair_filesystem
RepairPcs == {"r_tools", "r_refresh", "r_probe", "r_gpt", "r_mbr", "r_scan", "r_part"}

\* the repair session has acted
RepairActed ==
    repair_log # <<>> \/ \E i \in 1..Len(trace) : trace[i] \in RepairEvents

\* the texts of the I/O errors of a block's read and write
BlockErrors == {"read error", "write error"}

\* C3: a read or write error at a block stops the copy there: the step that
\* raises it leaves bytes_written and blocks_processed as they were, reports
\* the error with its text and ends the process with exit code 1; no
\* verification or repair event ever follows, and nothing happens after the exit.
C3_ErrorAborts ==
    /\ [][(err_text = "" /\ err_text' \in BlockErrors) =>
            /\ pc = "f_copy"
            /\ pc' = "exit"
            /\ exit_code' = 1
            /\ bytes_written' = bytes_written
            /\ blocks_processed' = blocks_processed
            /\ trace' = Append(trace, "err_flash_failed")
            /\ ~dst_open']_vars
    /\ [](Occurs("err_flash_failed", trace) =>
            /\ Exited
            /\ exit_code = 1
            /\ err_text # ""
            /\ LastEvent = "err_flash_failed"
            /\ ~Occurs("msg_flashed_ok", trace)
            /\ ~Occurs("verify_start", trace)
            /\ ~RepairActed)
    /\ [][~Exited]_vars

\* a write failed in the middle of the image
C3_Witness ==
    /\ Exited
    /\ err_text = "write error"
    /\ 0 < bytes_written
    /\ bytes_written < image_size

\* C4: a barrier follows every SyncEvery-th block: in the copy loop the number
\* of blocks written since the last completed barrier is blocks_processed
\* modulo SyncEvery, one barrier has been issued per SyncEvery blocks, and the
\* number of blocks not yet covered by a barrier never exceeds SyncEvery.
C4_Barrier ==
    /\ unsynced <= SyncEvery
    /\ CopyLoop =>
        /\ unsynced = blocks_processed % SyncEvery
        /\ Count("fsync", trace) = blocks_processed \div SyncEvery

\* the copy loop after a barrier, one block before the next
C4_Witness ==
    /\ pc = "f_copy"
    /\ blocks_processed > SyncEvery
    /\ unsynced = SyncEvery - 1

\* C5: in flash mode the final barrier precedes the success message and the
\* process-wide sync, the sync precedes verification, and sync (and, with
\* --verify, the verification's success) precedes every repair event; nothing
\* is written after the final barrier; the device is closed while the repair
\* session runs; after a successful flash the next phase is the verification if
\* requested and the repair session unless disabled.
C5_PhaseOrder ==
    ~args.fix_only =>
        /\ Count("fsync_final", trace) <= 1
        /\ Before("fsync_final", "msg_flashed_ok")
        /\ Before("msg_flashed_ok", "sync")
        /\ Before("sync", "verify_start")
        /\ Occurs("verify_start", trace) => args.verify
        /\ \A i \in 1..Len(trace) :
            trace[i] \in RepairEvents =>
                /\ ~args.no_repair
                /\ \E j \in 1..(i - 1) : trace[j] = "sync"
                /\ args.verify => \E j \in 1..(i - 1) : trace[j] = "verify_ok"
        /\ NoneAfter("fsync_final", WriteEvents)
        /\ RepairActed \/ pc \in RepairPcs =>
            /\ ~dst_open
            /\ Occurs("fsync_final", trace)
            /\ pc \in RepairPcs \cup {"exit"}
        /\ (LastEvent = "sync" /\ ~Exited) =>
            pc = IF args.verify THEN "v_open" ELSE "r_tools"
        /\ (LastEvent = "verify_ok" /\ ~Exited) => pc = "r_tools"

\* a flash with verification and repair has run to its end
C5_Witness ==
    /\ ~args.fix_only
    /\ args.verify
    /\ Exited
    /\ exit_code = 0
    /\ repair_log # <<>>

\* C6: the device is opened for writing only after umount has been run and has
\* returned; whatever umount's exit status, the step after it is the handler
\* installation (unless SIGINT ends the process), and a reported flash failure
\* is always an I/O error of the copy.
C6_UnmountFirst ==
    /\ [](/\ Before("umount", "open_w")
          /\ dst_open => umount_rc # -1
          /\ Occurs("err_flash_failed", trace) =>
                err_text \in {"open error", "read error", "write error", "fsync error"})
    /\ [][(pc = "f_start" /\ trace'[Len(trace')] # "msg_cancelled_sigint") =>
            /\ pc' = "f_handler"
            /\ umount_rc' \in {0, 32}
            /\ trace' = Append(trace, "umount")]_vars

\* umount failed and the flash was reported successful
C6_Witness ==
    /\ umount_rc = 32
    /\ Occurs("msg_flashed_ok", trace)

\* a SIGINT message was printed after the device was opened for writing and
\* before the final barrier
SigintInCopy ==
    \/ swallowed
    \/ \E i \in 1..Len(trace) :
        /\ trace[i] = "msg_cancelled_sigint"
        /\ \E j \in 1..(i - 1) : trace[j] = "open_w"
        /\ \A j \in 1..(i - 1) : trace[j] # "fsync_final"

\* C7: the copy loop runs under signal_handler, and once a SIGINT has been
\* handled during the copy the process has ended with a non-zero exit code, the
\* handler's message is the last event (no block is written after it), and no
\* success message, verification or repair follows.
C7_SigintAborts ==
    /\ CopyLoop => handler = "signal_handler"
    /\ SigintInCopy =>
        /\ Exited
        /\ exit_code # 0
        /\ LastEvent = "msg_cancelled_sigint"
        /\ ~swallowed
        /\ ~Occurs("msg_flashed_ok", trace)
        /\ ~Occurs("verify_start", trace)
        /\ ~RepairActed

\* the device read of the last compared chunk came back short
ShortRead == Len(trace) >= 2 /\ trace[Len(trace) - 1] = "dev_short_read"

C9_MismatchWarns ==
    Occurs("warn_verify_mismatch", trace) =>
        /\ Exited
        /\ exit_code = 1
        /\ LastEvent = "warn_verify_mismatch"
        /\ Before("msg_flashed_ok", "warn_verify_mismatch")
        /\ ~Occurs("err_flash_failed", trace)
        /\ err_text = ""
        /\ Count("open_w", trace) = 1
        /\ NoneAfter("fsync_final", WriteEvents)
        /\ ~dst_open
        /\ ~RepairActed

\* a corrupted byte was found in a run that would have repaired
C9_Witness ==
    /\ Exited
    /\ LastEvent = "warn_verify_mismatch"
    /\ ~args.no_repair
    /\ flipped # 0
    /\ bytes_written = image_size

\* something was done to the device: unmount, open for writing, a write, a new
\* partition table, a filesystem type query or repair tool
Touched ==
    \/ Occurs("umount", trace)
    \/ Occurs("open_w", trace)
    \/ Occurs("mklabel_gpt", trace)
    \/ Occurs("mklabel_msdos", trace)
    \/ repair_log # <<>>
    \/ dst_open
    \/ disk # BlankDevice

\* the messages of the failed preconditions
PreconditionErrors ==
    {"err_not_root", "err_args", "err_image_not_found", "err_device_not_found"}

\* C10: in flash mode the device is touched only after euid 0, the image being
\* a regular file and the device check have all held; a failed precondition
\* ends the process with exit code 1 as its only event, and a run that ends
\* before all three held ends with exit code 1 and an untouched device.
C10_Preconditions ==
    ~args.fix_only =>
        /\ Touched => passed = {"root", "image", "device"}
        /\ LastEvent \in PreconditionErrors =>
            /\ Exited
            /\ exit_code = 1
            /\ Len(trace) = 1
        /\ (Exited /\ passed # {"root", "image", "device"}) =>
            /\ exit_code = 1
            /\ ~Touched

\* the device check failed after the other two had passed
C10_Witness ==
    /\ ~args.fix_only
    /\ Exited
    /\ trace = <<"err_device_not_found">>
    /\ passed = {"root", "image"}

\* the device check has just run on a path of type st_type ("missing": no
\* such path)
DeviceChecked == st_type # ""

\* C11: the device check of both modes accepts exactly the block devices: when
\* it has run, the process goes on only if the path is a block device, and for
\* every other type and for a missing path it exits with 1 and 'Device not
\* found' as its only message.
C11_BlockOnly ==
    DeviceChecked =>
        IF st_type = "blk"
        THEN ~Exited
        ELSE /\ Exited
             /\ exit_code = 1
             /\ trace = <<"err_device_not_found">>

\* a missing external tool of the repair phase has just been reported: one of
\* required_tools by the session's own check, or blkid by the failure to run it
\* in the partition loop
MissingToolReported ==
    \/ LastEvent = "err_tool_missing"
    \/ /\ LastEvent = "err_unexpected"
       /\ Occurs("msg_found", trace)

\* a repair tool has been run on a partition
ToolInvoked == \E i \in 1..Len(repair_log) : repair_log[i].tool # "none"

\* C12: when a missing tool of the repair phase is reported, the device has not
\* been opened for writing or written, no partition table has been created and
\* no repair tool has been run, in flash-and-repair runs as in fix-only runs.
C12_ToolsFirst ==
    MissingToolReported =>
        /\ ~Occurs("open_w", trace)
        /\ disk = BlankDevice
        /\ ~Occurs("mklabel_gpt", trace)
        /\ ~Occurs("mklabel_msdos", trace)
        /\ ~ToolInvoked

\* the answers that are y or yes in some spelling
Affirmative == {"y", "Y", "yes", "Yes", "YES"}

\* something was done for the flash: unmount, write, verification or repair
FlashActed ==
    \/ Touched
    \/ Occurs("verify_start", trace)
    \/ RepairActed

\* C13: in flash mode without --force the prompt is read before anything is
\* done to the device; an answer of y or yes in any spelling lets the flash
\* begin, every other answer ends the process with exit code 0 and nothing
\* done; with --force no prompt is read and the step after the device
\* information begins the flash.
C13_Confirmed ==
    /\ [](~args.fix_only =>
            /\ (~args.force /\ FlashActed) =>
                /\ Occurs("prompt", trace)
                /\ ~Occurs("msg_cancelled", trace)
            /\ response \in Affirmative => pc = "f_start"
            /\ response \notin Affirmative \cup {"", "EOF"} =>
                /\ Exited
                /\ exit_code = 0
                /\ LastEvent = "msg_cancelled"
                /\ ~FlashActed
            /\ Occurs("msg_cancelled", trace) => response \notin Affirmative
            /\ args.force => ~Occurs("prompt", trace))
    /\ [][(pc = "m_confirm" /\ args.force /\ pc' # "exit") =>
            pc' = "f_start" /\ trace' = trace]_vars

\* the prompt was answered and the flash went through
C13_Witness ==
    /\ ~args.fix_only
    /\ ~args.force
    /\ Occurs("prompt", trace)
    /\ Occurs("msg_flashed_ok", trace)

\* the positions of main before the flash or the repair begins
MainPcs == {"m_root", "m_fix", "m_image", "m_device", "m_info", "m_confirm"}

\* the events of the verification
VerifyEvents == {"verify_start", "verify_ok", "warn_verify_mismatch",
                 "warn_verify_error", "dev_short_read"}

\* C14: with --fix-only only main's checks and the repair session run: nothing
\* of the copy or the verification happens and the device is never opened for
\* writing.  In flash mode with --no-repair no repair action is ever performed
\* and the end of a successful flash is the end of the process with exit code
\* 0.  Verification events occur only with --verify and after the flash was
\* reported successful, and with --verify the process-wide sync is followed by
\* the verification and success is never the end without it.
C14_Flags ==
    /\ args.fix_only =>
        /\ pc \in MainPcs \cup RepairPcs \cup {"exit"}
        /\ \A i \in 1..Len(trace) :
            trace[i] \notin WriteEvents \cup VerifyEvents
                            \cup {"sync", "msg_flashed_ok", "frame_final"}
        /\ ~dst_open
        /\ disk = BlankDevice
        /\ bytes_written = 0
    /\ (~args.fix_only /\ args.no_repair) =>
        /\ ~RepairActed
        /\ pc \notin RepairPcs
        /\ LastEvent = "verify_ok" => Exited /\ exit_code = 0
        /\ (LastEvent = "sync" /\ ~args.verify) => Exited /\ exit_code = 0
    /\ ~args.fix_only =>
        /\ \A i \in 1..Len(trace) :
            trace[i] \in VerifyEvents =>
                /\ args.verify
                /\ \E j \in 1..(i - 1) : trace[j] = "msg_flashed_ok"
        /\ pc \in {"v_open", "v_loop"} => args.verify
        /\ (args.verify /\ LastEvent = "sync" /\ ~Exited) => pc = "v_open"
        /\ (args.verify /\ Occurs("msg_flashed_ok", trace)
                /\ (RepairActed \/ pc \in RepairPcs \/ (Exited /\ exit_code = 0))) =>
            Occurs("verify_ok", trace)

\* a verified flash with --no-repair has ended
C14_Witness ==
    /\ ~args.fix_only
    /\ args.no_repair
    /\ args.verify
    /\ Exited
    /\ exit_code = 0
    /\ LastEvent = "verify_ok"

\* the partition-table probe of the repair session has failed
ProbeFailed == Occurs("warn_table_corrupted", trace)

\* the events of the enumeration
ScanEvents == {"msg_found", "warn_no_partitions"}

\* C15: when the table probe has failed without --force, the session has
\* warned and returned False: the second warning is the last event, the process
\* has ended with exit code 1, no table has been created, no partition has been
\* enumerated and no type query or repair tool has been run, in fix-only runs
\* and after a successful flash alike.
C15_NoForceStops ==
    (ProbeFailed /\ ~args.force) =>
        /\ Exited
        /\ exit_code = 1
        /\ LastEvent = "warn_use_force"
        /\ trace[Len(trace) - 1] = "warn_table_corrupted"
        /\ ~Occurs("mklabel_gpt", trace)
        /\ ~Occurs("mklabel_msdos", trace)
        /\ table = "unknown"
        /\ \A i \in 1..Len(trace) : trace[i] \notin ScanEvents
        /\ partitions = <<>>
        /\ repair_log = <<>>

\* the probe failed without --force after a successful flash
C15_Witness ==
    /\ ProbeFailed
    /\ ~args.force
    /\ ~args.fix_only
    /\ Occurs("msg_flashed_ok", trace)
    /\ Exited

\* C16: table creation is attempted only with --force and after a failed
\* probe, GPT first and each label at most once; MBR is attempted exactly when
\* GPT has failed; with the table created as GPT or, after a failed GPT, as MBR
\* the session goes on to the enumeration; when both have failed the session
\* has returned False (exit code 1) with no enumeration, type query or repair
\* tool; after a successful probe no creation is attempted.
C16_ForceRecreates ==
    /\ Before("warn_table_corrupted", "mklabel_gpt")
    /\ Before("msg_gpt_failed", "mklabel_msdos")
    /\ Before("mklabel_gpt", "msg_gpt_failed")
    /\ Count("mklabel_gpt", trace) <= 1
    /\ Count("mklabel_msdos", trace) <= 1
    /\ (Occurs("mklabel_gpt", trace) \/ pc \in {"r_gpt", "r_mbr"}) =>
        args.force /\ ProbeFailed
    /\ (args.force /\ LastEvent = "warn_table_corrupted") => pc = "r_gpt"
    /\ (Occurs("msg_gpt_failed", trace) /\ ~Occurs("mklabel_msdos", trace)) =>
        pc = "r_mbr" \/ LastEvent = "msg_cancelled_sigint"
    /\ table = "gpt" <=>
        Occurs("mklabel_gpt", trace) /\ ~Occurs("msg_gpt_failed", trace)
    /\ table = "msdos" <=>
        Occurs("mklabel_msdos", trace) /\ ~Occurs("err_table_failed", trace)
    /\ LastEvent \in {"mklabel_gpt", "mklabel_msdos"} => pc = "r_scan"
    /\ Occurs("err_table_failed", trace) =>
        /\ Exited
        /\ exit_code = 1
        /\ LastEvent = "err_table_failed"
        /\ trace[Len(trace) - 1] = "mklabel_msdos"
        /\ table = "unknown"
        /\ \A i \in 1..Len(trace) : trace[i] \notin ScanEvents
        /\ partitions = <<>>
        /\ repair_log = <<>>
    /\ table = "ok" <=> Occurs("parted_print", trace) /\ ~ProbeFailed
    /\ (\E i \in 1..Len(trace) : trace[i] \in ScanEvents) =>
        table \in {"ok", "gpt", "msdos"}

\* GPT failed, MBR succeeded, and the session completed on a partition
C16_Witness ==
    /\ table = "msdos"
    /\ Occurs("msg_gpt_failed", trace)
    /\ repair_log # <<>>
    /\ Exited
    /\ exit_code = 0
    /\ LastEvent = "msg_repair_completed"

\* the tool the dispatch table names for an entry of the repair log
TableTool(entry) ==
    IF entry.fstype \in {"ext2", "ext3", "ext4"} THEN "e2fsck -f -y"
    ELSE IF entry.fstype \in {"vfat", "fat16", "fat32"} THEN "dosfsck -a -v"
    ELSE IF entry.fstype = "ntfs" /\ entry.ntfsfix THEN "ntfsfix"
    ELSE "none"

\* C17: the repair log holds one entry per partition visited, in the order of
\* the enumeration (one type query each); the tool of an entry is the one the
\* table names for its type: e2fsck -f -y for ext2/ext3/ext4, dosfsck -a -v for
\* vfat/fat16/fat32, ntfsfix for ntfs if installed and a warning and no tool if
\* not, no tool for any other type and for a failed query (type 'unknown').
C17_Dispatch ==
    /\ Len(repair_log) <= Len(partitions)
    /\ pc = "r_part" => Len(repair_log) = part_idx - 1
    /\ \A i \in 1..Len(repair_log) :
        LET entry == repair_log[i] IN
        /\ entry.partition = partitions[i]
        /\ entry.fstype \in AllFsTypes \cup {"unknown"}
        /\ entry.tool = TableTool(entry)
        /\ (entry.fstype = "ntfs" /\ ~entry.ntfsfix) =>
            entry.message = "warn_ntfsfix_not_available"
        /\ entry.fstype \in {"swap", "unknown"} =>
            entry.message = "msg_no_repair_tool"

\* partitions of types ext4, vfat and unknown: one e2fsck, one dosfsck, one skip
C17_Witness ==
    /\ Len(repair_log) = 3
    /\ repair_log[1].fstype = "ext4" /\ repair_log[1].tool = "e2fsck -f -y"
    /\ repair_log[2].fstype = "vfat" /\ repair_log[2].tool = "dosfsck -a -v"
    /\ repair_log[3].fstype = "unknown" /\ repair_log[3].tool = "none"
    /\ LastEvent = "msg_repair_completed"

\* an exit the exit statuses of blkid and of the repair tools do not explain:
\* SIGINT, or a blkid that could not be started
Interrupted == LastEvent \in {"msg_cancelled_sigint", "err_unexpected"}

\* a repair tool has returned a non-zero exit status on a logged partition
ToolFailed == \E i \in 1..Len(repair_log) : repair_log[i].rc # 0

\* C18: once the per-partition loop is reached, every step that handles a
\* partition leads to the next one whatever blkid and the repair tool returned,
\* and a session that is not interrupted ends with every partition processed,
\* the completion message and exit code 0.
C18_BestEffort ==
    /\ [][(pc = "r_part" /\ repair_log' # repair_log) =>
            /\ pc' = "r_part"
            /\ part_idx' = part_idx + 1
            /\ Len(repair_log') = part_idx]_vars
    /\ []((Exited /\ Occurs("msg_found", trace) /\ ~Interrupted) =>
            /\ LastEvent = "msg_repair_completed"
            /\ exit_code = 0
            /\ Len(repair_log) = Len(partitions))

\* the tool of the first of three partitions failed, the session completed
C18_Witness ==
    /\ Exited
    /\ LastEvent = "msg_repair_completed"
    /\ exit_code = 0
    /\ Len(partitions) = 3
    /\ Len(repair_log) = 3
    /\ repair_log[1].rc # 0
    /\ repair_log[2].fstype = "unknown"
    /\ ToolFailed

\* the paths of the partition list
Enumerated == {partitions[i] : i \in 1..Len(partitions)}

\* the path of the /dev node called name
DevPath(name) == <<"/", "d", "e", "v", "/">> \o name

\* name is <prefix><digit...>
DigitSuffixed(prefix, name) ==
    /\ Len(name) > Len(prefix)
    /\ SubSeq(name, 1, Len(prefix)) = prefix
    /\ \A i \in (Len(prefix) + 1)..Len(name) : name[i] \in Digits

\* the partition list is the block-device nodes the rule selects:
\* <base>p<digit...> if withP(base_device), <base><digit...> if not
Selects(withP) ==
    LET base_name == PathName(base_device)
        prefix == IF withP THEN base_name \o <<"p">> ELSE base_name
    IN  /\ \A name \in dev_nodes :
            DevPath(name) \in Enumerated <=> DigitSuffixed(prefix, name)
        /\ \A path \in Enumerated : \E name \in dev_nodes : path = DevPath(name)

\* C19, as stated: the enumerator matches <base><digit...> for a base device of
\* the numbered family (mmcblk, nvme) and <base>p<digit...> for any other one.
C19_AsStated == Selects(~IsNumberedFamily(base_device))

\* C19: the enumerator matches <base>p<digit...> for a base device of the
\* numbered family (path contains 'mmcblk' or 'nvme') and <base><digit...> for
\* any other one; the partition list holds exactly the matching block devices.
C19_Enumerator == Selects(IsNumberedFamily(base_device))

\* both families were enumerated with nodes of both naming schemes present
C19_Witness ==
    /\ pc = "r_part"
    /\ \E name \in dev_nodes : DigitSuffixed(PathName(base_device), name)
    /\ \E name \in dev_nodes : DigitSuffixed(PathName(base_device) \o <<"p">>, name)
    /\ Len(partitions) = 3
    /\ IsNumberedFamily(base_device)

\* s comes before t in the lexicographic order of the characters' code points
LexBefore(s, t) ==
    \E k \in 1..Len(t) :
        /\ k <= Len(s) + 1
        /\ SubSeq(s, 1, k - 1) = SubSeq(t, 1, k - 1)
        /\ k = Len(s) + 1 \/ Ord(s[k]) < Ord(t[k])

\* C20: the partition list is in lexicographic order of the paths (sdb1, sdb10,
\* sdb2) and the partitions are repaired in the order of the list; when no node
\* matches, the session warns, queries no type, runs no tool and ends with
\* success.
C20_SortedOrEmpty ==
    /\ \A i, j \in 1..Len(partitions) :
        i < j => LexBefore(partitions[i], partitions[j])
    /\ Enumerated = {DevPath(PathName(DevSdb) \o n) : n \in {<<"1">>, <<"2">>, <<"1", "0">>}}
        => partitions = <<DevSdb \o <<"1">>, DevSdb \o <<"1", "0">>, DevSdb \o <<"2">>>>
    /\ \A i \in 1..Len(repair_log) : repair_log[i].partition = partitions[i]
    /\ Occurs("msg_found", trace) => partitions # <<>>
    /\ Occurs("warn_no_partitions", trace) =>
        /\ LastEvent = "warn_no_partitions"
        /\ partitions = <<>>
        /\ repair_log = <<>>
        /\ Exited
        /\ exit_code = 0
    /\ (Exited /\ exit_code = 0 /\ partitions = <<>> /\ Occurs("partprobe", trace))
        => LastEvent = "warn_no_partitions"

\* sdb1, sdb10 and sdb2 were repaired in this order
C20_Witness ==
    /\ Exited
    /\ Len(repair_log) = 3
    /\ repair_log[1].partition = DevSdb \o <<"1">>
    /\ repair_log[2].partition = DevSdb \o <<"1", "0">>
    /\ repair_log[3].partition = DevSdb \o <<"2">>
    /\ LastEvent = "msg_repair_completed"

\* the copy loop is running (between two blocks or rendering a frame)
InCopyLoop == pc \in {"f_copy", "f_width"}

\* the final completion frame, which shows 100%, has been rendered
FinalFrameShown == Occurs("frame_final", trace)

\* C21: a rendered frame shows min(100, floor(bytes_written * 100 / image_size));
\* from frame to frame the percentage never decreases; a frame, the final
\* completion frame included, shows 100 only when bytes_written = image_size.
C21_Percent ==
    /\ [](pc = "f_width" =>
            /\ percent = Min(100, (bytes_written * 100) \div image_size)
            /\ percent = 100 => bytes_written = image_size)
    /\ [][(InCopyLoop /\ InCopyLoop') => percent' >= percent]_vars
    /\ [](FinalFrameShown => bytes_written = image_size)

\* this step is the delivery of a SIGINT that ends the process
CancelledStep == pc' = "exit" /\ trace' = Append(trace, "msg_cancelled_sigint")

\* C22: when the copy loop has ended without an I/O error (the final barrier
\* included), whatever the number of progress frames rendered during the copy,
\* zero included, the next step of the flash renders the final frame and
\* reports success.
C22_FinalFrame ==
    [][(pc = "f_final" /\ ~CancelledStep) =>
        /\ pc' = "f_sync"
        /\ trace' = trace \o <<"frame_final", "msg_flashed_ok">>]_vars

\* the flash has been reported as successful
ReportedSuccess == Occurs("msg_flashed_ok", trace)

\* the source yields fewer bytes than image_size
SourceShort == Len(src) < image_size

\* C23: the copy is never silently truncated: the bytes counted as written are
\* the bytes of the source in order, none skipped; success is reported only
\* when bytes_written = image_size; a source exhausted before image_size bytes
\* is not reported as a successful flash.
C23_NoTruncation ==
    /\ (pc \in {"f_copy", "f_width", "f_fsync", "f_final", "f_sync"}) =>
        /\ bytes_written <= Len(src)
        /\ Slice(disk, 0, bytes_written) = Slice(src, 0, bytes_written)
    /\ ReportedSuccess => bytes_written = image_size
    /\ (image_size > 0 /\ SourceShort) => ~ReportedSuccess

\* the whole-disk node of a device path, by the kernel's naming: a partition of
\* a numbered-family disk is <disk>p<N>, one of a lettered-family disk <disk><N>
WholeDisk(path) ==
    LET stem == RStripDigits(path)
    IN  IF IsNumberedFamily(path)
        THEN IF /\ stem # path
                /\ Len(stem) >= 2
                /\ stem[Len(stem)] = "p"
                /\ stem[Len(stem) - 1] \in Digits
             THEN SubSeq(stem, 1, Len(stem) - 1)
             ELSE path
        ELSE stem

\* whole-disk and partition paths of both families
SamplePaths ==
    { DevSdb, DevMmc, DevSdb \o <<"1">>, DevMmc \o <<"p", "1">>,
      <<"/", "d", "e", "v", "/", "n", "v", "m", "e", "0", "n", "1">>,
      <<"/", "d", "e", "v", "/", "n", "v", "m", "e", "0", "n", "1", "p", "2">> }

\* C24: the base device of the repair session is the whole-disk node of the
\* device path it was given, and the extraction yields the whole-disk node for
\* whole-disk and partition paths of both families.
C24_BaseIsDisk ==
    base_device # <<>> =>
        /\ base_device = WholeDisk(device_path)
        /\ \A path \in SamplePaths : BaseDevice(path) = WholeDisk(path)

\* the events that create a partition table
MklabelEvents == {"mklabel_gpt", "mklabel_msdos"}

\* the event at position i of the trace follows a re-read and its settle delay
AfterRereadSettle(i) ==
    i > 2 /\ trace[i - 2] = "partprobe" /\ trace[i - 1] = "sleep"

\* C25: in a repair session a re-read with its settle delay comes right before
\* the table probe; the enumeration comes right after a re-read with its settle
\* delay, which is later than any table creation; the completion message comes
\* right after one more re-read, issued once every partition was processed.
C25_Rereads ==
    \A i \in 1..Len(trace) :
        /\ trace[i] = "parted_print" => AfterRereadSettle(i)
        /\ trace[i] \in ScanEvents =>
            /\ AfterRereadSettle(i)
            /\ \A j \in 1..Len(trace) : trace[j] \in MklabelEvents => j < i - 2
            /\ \E j \in 1..(i - 3) : trace[j] = "parted_print"
        /\ trace[i] = "msg_repair_completed" =>
            /\ i > 1 /\ trace[i - 1] = "partprobe"
            /\ Len(repair_log) = Len(partitions)
            /\ \E j \in 1..(i - 2) : trace[j] = "msg_found"

\* a session that recreated the table, found partitions and completed: three
\* re-reads, the creation between the first two
C25_Witness ==
    /\ LastEvent = "msg_repair_completed"
    /\ Count("partprobe", trace) = 3
    /\ Occurs("mklabel_msdos", trace)
    /\ Len(repair_log) = 2

\* C26: while a frame is rendered its speed is the bytes written since the
\* previous frame over the time since the previous frame, in whole MB/s, and 0
\* for the first frame; that time is never zero; once the frame is rendered the
\* stored sample is the frame's: its time and its bytes_written.
C26_Speed ==
    /\ [](pc = "f_width" =>
            /\ elapsed >= SampleTicks
            /\ elapsed > 0
            /\ last_bytes < bytes_written
            /\ speed_mbs = IF last_bytes = 0
                           THEN 0
                           ELSE ((bytes_written - last_bytes) * 10) \div (elapsed * MiB))
    /\ [][(pc = "f_width" /\ pc' = "f_copy") =>
            /\ last_bytes' = bytes_written
            /\ elapsed' = 0
            /\ speed_mbs' = speed_mbs]_vars

\* a second frame is being rendered and shows a speed above 0
C26_Witness ==
    /\ pc = "f_width"
    /\ last_bytes > 0
    /\ speed_mbs > 0

\* the positions of the verification
VerifyPcs == {"v_open", "v_loop"}

\* C27: in every state of the verification the number of bytes compared so far
\* is at most the bytes_written of the copy and at most image_size.
C27_VerifyBounded ==
    (pc \in VerifyPcs \/ Occurs("verify_start", trace)) =>
        /\ bytes_compared <= bytes_written
        /\ bytes_compared <= image_size

\* C28: the verification loop always terminates: a run that is in the loop
\* eventually leaves it, also when the image yields fewer than image_size bytes.
C28_VerifyTerminates == (pc = "v_loop") ~> (pc # "v_loop")

\* the positions of a flash run after its copy loop and final barrier
AfterCopyPcs == {"f_final", "f_sync"} \cup VerifyPcs \cup RepairPcs

\* C29: in every state after the copy (final frame, sync, verification, repair
\* session) the SIGINT disposition is the one from before the copy again; the
\* copy's handler is in effect during the copy only.
C29_HandlerRestored ==
    /\ pc \in AfterCopyPcs => handler = "default"
    /\ handler = "signal_handler" => pc \in {"f_open", "f_copy", "f_width", "f_fsync", "exit"}

\* the suffix that starts a partition's name after the name of a device
ChildInfix(path) == IF IsNumberedFamily(path) THEN <<"p">> ELSE <<>>

\* C30: in a run that unmounts and enumerates, the unmount step and the
\* enumerator classify the device alike and address its partitions alike: <device>p<N> for a path that contains 'mmcblk'
\* or 'nvme', <device><N> for any other path.
C30_SameNaming ==
    umount_glob # <<>> =>
        /\ umount_glob = device_path \o ChildInfix(device_path) \o <<"*">>
        /\ base_device # <<>> =>
            IsNumberedFamily(base_device) = IsNumberedFamily(device_path)
        /\ \A name \in dev_nodes :
            DevPath(name) \in Enumerated <=>
                DigitSuffixed(PathName(device_path) \o ChildInfix(device_path), name)

====
